---- MODULE Spec2Model ----
(***************************************************************************)
(* A model of GridUI (src/main.py): an editor of shape-backed controls on   *)
(* a monome grid.  Time is counted in tenths of a second.  A control's      *)
(* flash_start is written by touch() and read nowhere, so it is left out.   *)
(***************************************************************************)
EXTENDS Integers, Sequences, FiniteSets, TLC

(* ------------------------------ bounds -------------------------------- *)
\* The grid the device reports (grid.width, grid.height).
GridWidth == 3
GridHeight == 4
\* Most controls alive at once; a key event that would add one more is not taken.
MaxElements == 2
\* Size of the pool the random ids are drawn from (36^6 in the code).  A control is
\* added only next to fewer than MaxElements others, whose keys and ids, with the
\* clipboard's id, are at most 3 ids: a pool of 4 always holds an id carried nowhere.
NumIds == 4
\* How many of the ids carried nowhere in the state a draw may produce.  The code
\* prints ids and compares keys only with each other, so which of them is drawn changes
\* a state only by a renaming; a draw of an id that the clipboard or a control still
\* carries is a different state (StaleIds).
IdChoices == 1
\* The clock stops advancing at this reading.
MaxTime == 11
\* One step of the clock, in tenths of a second.
TickTenths == 3
\* How far a control's brightness is moved from its initial levels.
MaxAdjust == 1
\* meta_history is a deque(maxlen=5) of which only the entry before the newest is
\* ever read (last_pressed_was_copy_delete); the model keeps the newest HistoryKept.
HistoryKept == 2
\* brightness presses followed in the brightness specification: enough to take both
\* levels from their initial values to either clamp
FullAdjust == 12
\* controls alive at a time in the brightness specification
MaxBrightControls == 1

(* ------------------------- program constants -------------------------- *)
\* current_time - delete_press_time < 0.5
DoublePressWindow == 5
BaseBrightnessInit == 3
PeakBrightnessInit == 10
BaseBrightnessMax == 13
PeakBrightnessMin == 2
PeakBrightnessMax == 15

IdPool == <<"A", "B", "C", "D", "E", "F">>
Ids == {IdPool[i] : i \in 1..NumIds}
None == "None"
\* paste_buffer = None
NoElement == [id |-> None]

Min2(a, b) == IF a <= b THEN a ELSE b
Max2(a, b) == IF a >= b THEN a ELSE b
SeqRange(s) == {s[i] : i \in 1..Len(s)}
MinOf(S) == CHOOSE m \in S : \A n \in S : m <= n
MaxOf(S) == CHOOSE m \in S : \A n \in S : m >= n

(* ------------------------------ shapes -------------------------------- *)
\* Triangle.contains_point.sign
sign(p1, p2, p3) ==
    (p1[1] - p3[1]) * (p2[2] - p3[2]) - (p2[1] - p3[1]) * (p1[2] - p3[2])

Point_contains_point(points, x, y) == <<x, y>> = points[1]

Rectangle_contains_point(points, x, y) ==
    LET x1 == points[1][1]
        y1 == points[1][2]
        x2 == points[2][1]
        y2 == points[2][2]
    IN  /\ Min2(x1, x2) <= x /\ x <= Max2(x1, x2)
        /\ Min2(y1, y2) <= y /\ y <= Max2(y1, y2)

Triangle_contains_point(points, x, y) ==
    IF Len(points) < 3 THEN FALSE
    ELSE LET b1 == sign(<<x, y>>, points[1], points[2]) < 0
             b2 == sign(<<x, y>>, points[2], points[3]) < 0
             b3 == sign(<<x, y>>, points[3], points[1]) < 0
         IN  (b1 = b2) /\ (b2 = b3)

\* UIElement.contains_point: dispatch on the class of element.shape
contains_point(el, x, y) ==
    CASE el.shape = "Point" -> Point_contains_point(el.points, x, y)
      [] el.shape = "Rectangle" -> Rectangle_contains_point(el.points, x, y)
      [] el.shape = "Triangle" -> Triangle_contains_point(el.points, x, y)

get_edges(points) ==
    [i \in 1..Len(points) |-> <<points[i], points[(i % Len(points)) + 1]>>]

ccw(A, B, C) == (C[2] - A[2]) * (B[1] - A[1]) > (B[2] - A[2]) * (C[1] - A[1])

lines_intersect(line1, line2) ==
    /\ ccw(line1[1], line2[1], line2[2]) # ccw(line1[2], line2[1], line2[2])
    /\ ccw(line1[1], line1[2], line2[1]) # ccw(line1[1], line1[2], line2[2])

check_overlap(elem1, elem2) ==
    \/ \E i \in 1..Len(elem1.points) :
          contains_point(elem2, elem1.points[i][1], elem1.points[i][2])
    \/ \E i \in 1..Len(elem2.points) :
          contains_point(elem1, elem2.points[i][1], elem2.points[i][2])
    \/ \E i \in 1..Len(elem1.points), j \in 1..Len(elem2.points) :
          lines_intersect(get_edges(elem1.points)[i], get_edges(elem2.points)[j])

elements_overlap(new_element, elements) ==
    \E i \in 1..Len(elements) : check_overlap(new_element, elements[i])

element_in_bottom_row(element, h) ==
    \E i \in 1..Len(element.points) : element.points[i][2] = h - 1

(* ------------------------------ controls ------------------------------ *)
\* Trigger(new_id, shape): UIElement.__init__
Trigger(id, shape, points) ==
    [id |-> id, shape |-> shape, points |-> points, state |-> 0,
     base_brightness |-> BaseBrightnessInit, peak_brightness |-> PeakBrightnessInit]

\* Trigger.touch: only a press flips the state
Trigger_touch(el, s) == IF s = 1 THEN [el EXCEPT !.state = 1 - el.state] ELSE el

get_brightness(el) == IF el.state = 0 THEN el.base_brightness ELSE el.peak_brightness

\* a clip_brightness that lets the resting level go as high as the active one
clip_base_to_peak_max(el) ==
    [el EXCEPT !.base_brightness = Max2(0, Min2(el.base_brightness, PeakBrightnessMax)),
               !.peak_brightness = Max2(PeakBrightnessMin, Min2(el.peak_brightness, PeakBrightnessMax))]

\* a clip_brightness that clamps nothing
clip_nothing(el) == el

clip_brightness(el) ==
    [el EXCEPT !.base_brightness = Max2(0, Min2(el.base_brightness, BaseBrightnessMax)),
               !.peak_brightness = Max2(PeakBrightnessMin, Min2(el.peak_brightness, PeakBrightnessMax))]

adjust_brightness(el, delta) ==
    clip_brightness([el EXCEPT !.base_brightness = el.base_brightness + delta,
                               !.peak_brightness = el.peak_brightness + delta])

(* ------------------------------- state -------------------------------- *)
VARIABLES
    phase,              \* the device: "waiting", "attached", "detached"
    loop,               \* main(): "running"; "stopping" once the SIGINT handler has called
                        \* loop.stop(); "stopped" once the finally of main() has run, in the
                        \* teardown of asyncio.run, where the loop still delivers callbacks
    now,                \* time.time(), in tenths of a second
    copy_delete_key_time, \* when cell (1, height-1) last went down with the meta key held
                        \* and a control selected, so that it copied or deleted (0: not
                        \* since the last reset)
    normal_down,        \* the cell of the last key event, if that was a key-down off the
                        \* bottom row with the meta key up; else None
    last_error,         \* the exception the last key handler left through, or None
    width, height, connected, is_running, update_task,
    meta_pressed,
    selected_element,   \* the key of the selected control in ui_elements, or None
    delete_press_time, delete_press_count,
    paste_buffer,       \* a deep copy of a control, or NoElement
    meta_history,
    ui_elements,        \* the dict in insertion order: records with the key and the control
    current_points

device == <<width, height, connected, is_running, update_task>>
editor == <<meta_pressed, selected_element, delete_press_time, delete_press_count,
            paste_buffer, meta_history, ui_elements, current_points>>
keylog == <<copy_delete_key_time, normal_down>>
vars == <<phase, loop, now, keylog, last_error, device, editor>>

\* ui_elements[key] = element
Stored(key, el) ==
    [key |-> key, id |-> el.id, shape |-> el.shape, points |-> el.points, state |-> el.state,
     base_brightness |-> el.base_brightness, peak_brightness |-> el.peak_brightness]

\* copy.deepcopy(element): a control of its own, under no key
deepcopy(e) ==
    [id |-> e.id, shape |-> e.shape, points |-> e.points, state |-> e.state,
     base_brightness |-> e.base_brightness, peak_brightness |-> e.peak_brightness]

Keys(elements) == {elements[i].key : i \in 1..Len(elements)}
IndexOf(elements, key) == CHOOSE i \in 1..Len(elements) : elements[i].key = key

\* random.choices until the id is not in existing_ids: any id of the pool that is not
\* in existing_ids can be returned
generate_unique_id(existing_ids) == {id \in Ids : id \notin existing_ids}

\* the first control, in insertion order, containing the cell (0: none)
get_element_at_position(elements, x, y) ==
    IF \E i \in 1..Len(elements) : contains_point(elements[i], x, y)
    THEN MinOf({i \in 1..Len(elements) : contains_point(elements[i], x, y)})
    ELSE 0

\* a get_meta_ui_position without the clamps of lines 453-454
meta_ui_unclamped(element, w, h) ==
    LET max_x == MaxOf({element.points[i][1] : i \in 1..Len(element.points)})
        min_y == MinOf({element.points[i][2] : i \in 1..Len(element.points)})
        meta_x == IF max_x + 1 >= w - 1 THEN max_x - 2 ELSE max_x + 1
    IN  <<meta_x, min_y>>

get_meta_ui_position(element, w, h) ==
    LET max_x == MaxOf({element.points[i][1] : i \in 1..Len(element.points)})
        min_y == MinOf({element.points[i][2] : i \in 1..Len(element.points)})
        meta_x == IF max_x + 1 >= w - 1 THEN max_x - 2 ELSE max_x + 1
    IN  <<Max2(0, Min2(w - 2, meta_x)), Max2(0, Min2(h - 1, min_y))>>

last_pressed_was_copy_delete(history, h) ==
    Len(history) >= 2 /\ history[Len(history) - 1] = <<1, h - 1>>

\* meta_history.append: a full deque drops its oldest entry
deque_append(history, item) ==
    IF Len(history) < HistoryKept THEN Append(history, item)
    ELSE Append(Tail(history), item)

(* ----------------------------- operations ----------------------------- *)
create_ui_element(elements, points, new_id, h) ==
    LET n == Len(points)
        shape == CASE n = 2 -> "Rectangle" [] n = 3 -> "Triangle" [] n = 1 -> "Point"
                   [] OTHER -> None
        new_element == Trigger(new_id, shape, points)
    IN  IF shape = None THEN [ui_elements |-> elements, current_points |-> points]
        ELSE IF ~element_in_bottom_row(new_element, h) /\ ~elements_overlap(new_element, elements)
        THEN [ui_elements |-> Append(elements, Stored(new_id, new_element)),
              current_points |-> <<>>]
        ELSE [ui_elements |-> elements, current_points |-> points]

copy_selected_element(elements, sel, buffer) ==
    IF sel # None THEN deepcopy(elements[IndexOf(elements, sel)]) ELSE buffer

\* a delete that forgets line 404, selected_element = None
delete_keeps_selection(elements, sel) ==
    [ui_elements |-> SelectSeq(elements, LAMBDA e : e.key # sel), selected_element |-> sel]

delete_selected_element(elements, sel) ==
    IF sel # None
    THEN [ui_elements |-> SelectSeq(elements, LAMBDA e : e.key # sel),
          selected_element |-> None]
    ELSE [ui_elements |-> elements, selected_element |-> sel]

\* a paste that moves the first vertex only
paste_moves_first_vertex(elements, sel, buffer, x, y, new_id, h) ==
    IF buffer = NoElement THEN [ui_elements |-> elements, selected_element |-> sel]
    ELSE LET new_element == [buffer EXCEPT !.points = [buffer.points EXCEPT ![1] = <<x, y>>]]
         IN  IF element_in_bottom_row(new_element, h) \/ elements_overlap(new_element, elements)
             THEN [ui_elements |-> elements, selected_element |-> sel]
             ELSE [ui_elements |-> Append(elements, Stored(new_id, new_element)),
                   selected_element |-> new_id]

paste_element(elements, sel, buffer, x, y, new_id, h) ==
    IF buffer = NoElement THEN [ui_elements |-> elements, selected_element |-> sel]
    ELSE LET offset_x == x - buffer.points[1][1]
             offset_y == y - buffer.points[1][2]
             new_element ==
                 [buffer EXCEPT !.points =
                     [i \in 1..Len(buffer.points) |->
                         <<buffer.points[i][1] + offset_x, buffer.points[i][2] + offset_y>>]]
         IN  IF element_in_bottom_row(new_element, h) \/ elements_overlap(new_element, elements)
             THEN [ui_elements |-> elements, selected_element |-> sel]
             ELSE [ui_elements |-> Append(elements, Stored(new_id, new_element)),
                   selected_element |-> new_id]

\* a reset that empties the clipboard with the rest
reset_clears_clipboard ==
    /\ ui_elements' = <<>>
    /\ current_points' = <<>>
    /\ meta_pressed' = FALSE
    /\ selected_element' = None
    /\ delete_press_time' = 0
    /\ delete_press_count' = 0
    /\ meta_history' = <<>>
    /\ paste_buffer' = NoElement

\* reset(): everything but paste_buffer
reset ==
    /\ ui_elements' = <<>>
    /\ current_points' = <<>>
    /\ meta_pressed' = FALSE
    /\ selected_element' = None
    /\ delete_press_time' = 0
    /\ delete_press_count' = 0
    /\ meta_history' = <<>>
    /\ UNCHANGED paste_buffer

\* line 298: a second press inside the window deletes
double_press(current_time, press_time) == current_time - press_time < DoublePressWindow

(* ------------------------------ handlers ------------------------------ *)
Init ==
    /\ phase = "waiting"
    /\ loop = "running"
    /\ now = DoublePressWindow
    /\ copy_delete_key_time = 0
    /\ normal_down = <<>>
    /\ last_error = None
    /\ width = 0 /\ height = 0
    /\ connected = FALSE /\ is_running = FALSE /\ update_task = None
    /\ meta_pressed = FALSE
    /\ selected_element = None
    /\ delete_press_time = 0 /\ delete_press_count = 0
    /\ paste_buffer = NoElement
    /\ meta_history = <<>>
    /\ ui_elements = <<>>
    /\ current_points = <<>>

\* a meta key whose release forgets line 254, current_points.clear(): the buffer is
\* what create_ui_element left
meta_key_keeps_points(s) ==
    IF s = 1
    THEN /\ meta_pressed' = TRUE
         /\ UNCHANGED <<selected_element, delete_press_time, delete_press_count,
                        paste_buffer, meta_history, ui_elements, current_points>>
    ELSE \E new_id \in generate_unique_id(Keys(ui_elements)) :
            LET r == create_ui_element(ui_elements, current_points, new_id, height)
            IN  /\ meta_pressed' = FALSE
                /\ ui_elements' = r.ui_elements
                /\ selected_element' = None
                /\ current_points' = r.current_points
                /\ UNCHANGED <<delete_press_time, delete_press_count, paste_buffer,
                               meta_history>>

\* on_grid_key, lines 249-256: the meta key; its release runs create_ui_element
meta_key(s) ==
    IF s = 1
    THEN /\ meta_pressed' = TRUE
         /\ UNCHANGED <<selected_element, delete_press_time, delete_press_count,
                        paste_buffer, meta_history, ui_elements, current_points>>
    ELSE \E new_id \in generate_unique_id(Keys(ui_elements)) :
            /\ meta_pressed' = FALSE
            /\ ui_elements' =
                   create_ui_element(ui_elements, current_points, new_id, height).ui_elements
            /\ selected_element' = None
            /\ current_points' = <<>>
            /\ UNCHANGED <<delete_press_time, delete_press_count, paste_buffer, meta_history>>

handle_normal_interaction(x, y, s) ==
    LET i == get_element_at_position(ui_elements, x, y)
    IN  /\ ui_elements' =
               IF y = height - 1 \/ i = 0 THEN ui_elements
               ELSE [ui_elements EXCEPT ![i] = Trigger_touch(@, s)]
        /\ UNCHANGED <<meta_pressed, selected_element, delete_press_time, delete_press_count,
                       paste_buffer, meta_history, current_points>>

\* handle_meta_interaction, lines 306-319: no meta UI cell was hit.  deselect_element
\* raises AttributeError (no class defines reset_brightness) before anything is assigned.
select_or_paste(x, y) ==
    LET i == get_element_at_position(ui_elements, x, y)
    IN  IF y >= height - 1
        THEN /\ last_error' = None
             /\ UNCHANGED <<selected_element, delete_press_count, ui_elements>>
        ELSE IF i # 0
        THEN IF selected_element # None /\ selected_element # ui_elements[i].key
             THEN /\ last_error' = "AttributeError"
                  /\ UNCHANGED <<selected_element, delete_press_count, ui_elements>>
             ELSE /\ last_error' = None
                  /\ selected_element' = ui_elements[i].key
                  /\ delete_press_count' = 0
                  /\ UNCHANGED ui_elements
        ELSE IF paste_buffer # NoElement /\ last_pressed_was_copy_delete(meta_history', height)
        THEN \E new_id \in generate_unique_id(Keys(ui_elements)) :
                LET r == paste_element(ui_elements, selected_element, paste_buffer,
                                       x, y, new_id, height)
                IN  /\ last_error' = None
                    /\ ui_elements' = r.ui_elements
                    /\ selected_element' = r.selected_element
                    /\ UNCHANGED delete_press_count
        ELSE /\ last_error' = IF selected_element # None THEN "AttributeError" ELSE None
             /\ UNCHANGED <<selected_element, delete_press_count, ui_elements>>

\* handle_meta_interaction, lines 296-304: the copy/delete cell with a control selected
copy_or_delete ==
    IF double_press(now, delete_press_time)
    THEN LET r == delete_selected_element(ui_elements, selected_element)
         IN  /\ ui_elements' = r.ui_elements
             /\ selected_element' = r.selected_element
             /\ UNCHANGED <<delete_press_time, paste_buffer>>
    ELSE /\ paste_buffer' = copy_selected_element(ui_elements, selected_element, paste_buffer)
         /\ delete_press_time' = now
         /\ UNCHANGED <<selected_element, ui_elements>>

handle_meta_interaction(x, y, s) ==
    IF s # 1
    THEN /\ last_error' = None
         /\ UNCHANGED editor
    ELSE /\ meta_history' = deque_append(meta_history, <<x, y>>)
         /\ current_points' =
                IF y < height - 1 /\ <<x, y>> \notin SeqRange(current_points)
                THEN Append(current_points, <<x, y>>) ELSE current_points
         /\ UNCHANGED meta_pressed
         /\ LET sel == IF selected_element = None THEN 0
                       ELSE IndexOf(ui_elements, selected_element)
                meta_ui_pos == IF sel = 0 THEN <<-1, -1>>
                               ELSE get_meta_ui_position(ui_elements[sel], width, height)
            IN  IF sel # 0 /\ <<x, y>> = meta_ui_pos
                THEN /\ ui_elements' = [ui_elements EXCEPT ![sel] = adjust_brightness(@, 1)]
                     /\ last_error' = None
                     /\ UNCHANGED <<selected_element, delete_press_time, delete_press_count,
                                    paste_buffer>>
                ELSE IF sel # 0 /\ <<x, y>> = <<meta_ui_pos[1] + 1, meta_ui_pos[2]>>
                THEN /\ ui_elements' = [ui_elements EXCEPT ![sel] = adjust_brightness(@, -1)]
                     /\ last_error' = None
                     /\ UNCHANGED <<selected_element, delete_press_time, delete_press_count,
                                    paste_buffer>>
                ELSE IF sel # 0 /\ <<x, y>> = <<1, height - 1>>
                THEN /\ copy_or_delete
                     /\ last_error' = None
                     /\ UNCHANGED delete_press_count
                ELSE /\ select_or_paste(x, y)
                     /\ UNCHANGED <<delete_press_time, paste_buffer>>

on_grid_key(x, y, s) ==
    /\ IF ~connected
       THEN UNCHANGED <<editor, last_error>>
       ELSE IF x = 0 /\ y = height - 1
       THEN meta_key(s) /\ last_error' = None
       ELSE IF meta_pressed
       THEN handle_meta_interaction(x, y, s)
       ELSE handle_normal_interaction(x, y, s) /\ last_error' = None
    /\ copy_delete_key_time' =
           IF /\ connected /\ s = 1 /\ <<x, y>> = <<1, height - 1>>
              /\ meta_pressed /\ selected_element # None
           THEN now ELSE copy_delete_key_time
    /\ normal_down' =
           IF connected /\ s = 1 /\ ~meta_pressed /\ y < height - 1 THEN <<x, y>> ELSE <<>>
    /\ UNCHANGED <<phase, loop, now, device>>

\* start_update_loop: a task is created only when the loop is not running
start_update_loop ==
    /\ is_running' = TRUE
    /\ update_task' = IF is_running THEN update_task ELSE "pending"

\* stop_update_loop: cancel() of a task that is cancelled or done is a no-op
stop_update_loop ==
    /\ is_running' = FALSE
    /\ update_task' = IF update_task = "pending" THEN "cancelled" ELSE update_task

\* cleanup: stop_update_loop(), then a blank buffer is rendered; it changes nothing else,
\* ends nothing, and can be called any number of times
cleanup == stop_update_loop

\* on_grid_ready: reset(), start_update_loop(), draw()
on_grid_ready ==
    /\ phase' = "attached"
    /\ width' = GridWidth
    /\ height' = GridHeight
    /\ connected' = TRUE
    /\ reset
    /\ start_update_loop
    /\ last_error' = None
    /\ copy_delete_key_time' = 0
    /\ normal_down' = <<>>
    /\ UNCHANGED <<loop, now>>

\* on_grid_ready with SIGINT delivered between lines 225 and 226: the handler's
\* cleanup() clears is_running, which line 225 has just set, and cancels the task of
\* before; line 226 then creates a task that nothing has cancelled
on_grid_ready_interrupted ==
    /\ ~is_running
    /\ phase' = "attached"
    /\ width' = GridWidth
    /\ height' = GridHeight
    /\ connected' = TRUE
    /\ reset
    /\ is_running' = FALSE
    /\ update_task' = "pending"
    /\ loop' = IF loop = "stopped" THEN loop ELSE "stopping"
    /\ last_error' = None
    /\ copy_delete_key_time' = 0
    /\ normal_down' = <<>>
    /\ UNCHANGED now

\* monome.GridApp.on_grid_disconnect, which GridUI does not override
on_grid_disconnect ==
    /\ phase = "attached"
    /\ phase' = "detached"
    /\ UNCHANGED <<loop, now, keylog, last_error, device, editor>>

\* one turn of the update_loop task: draw() reads the state and changes none of it; a
\* task that finds is_running cleared returns
update_loop ==
    /\ update_task = "pending"
    /\ update_task' = IF is_running THEN update_task ELSE "done"
    /\ UNCHANGED <<phase, loop, now, keylog, last_error, width, height, connected,
                   is_running, editor>>

\* the SIGINT handler between two callbacks: cleanup(), then loop.stop(), which lets
\* the callbacks already scheduled run before the loop ends; the finally of main() runs
\* once, so a SIGINT after it only repeats cleanup()
signal_handler ==
    /\ cleanup
    /\ loop' = IF loop = "stopped" THEN loop ELSE "stopping"
    /\ UNCHANGED <<phase, now, keylog, last_error, width, height, connected, editor>>

\* the finally of main() calls cleanup() once more; handlers delivered after it still run
main_finally ==
    /\ loop = "stopping"
    /\ cleanup
    /\ loop' = "stopped"
    /\ UNCHANGED <<phase, now, keylog, last_error, width, height, connected, editor>>

Tick ==
    /\ now + TickTenths <= MaxTime
    /\ now' = now + TickTenths
    /\ UNCHANGED <<phase, loop, keylog, last_error, device, editor>>

(* ---------------------------- environments ---------------------------- *)
MetaCell == <<0, GridHeight - 1>>
CopyDeleteCell == <<1, GridHeight - 1>>

\* how far a control's levels are from the levels it was created with
Moved(el) ==
    Max2(Max2(el.base_brightness - BaseBrightnessInit, BaseBrightnessInit - el.base_brightness),
         Max2(el.peak_brightness - PeakBrightnessInit, PeakBrightnessInit - el.peak_brightness))

\* the ids the state carries: those of the live controls and of the clipboard control
CarriedIds ==
    {ui_elements[i].id : i \in 1..Len(ui_elements)}
        \cup (IF paste_buffer = NoElement THEN {} ELSE {paste_buffer.id})

\* draws of an unused id that the clipboard or a control still carries
StaleIds == generate_unique_id(Keys(ui_elements)) \cap CarriedIds

\* the first IdChoices, in pool order, of the ids carried nowhere in the state
FreshIds ==
    LET fresh == {j \in 1..NumIds : IdPool[j] \in generate_unique_id(Keys(ui_elements))
                                                    \ CarriedIds}
    IN  {IdPool[j] : j \in {i \in fresh : Cardinality({k \in fresh : k < i}) < IdChoices}}

\* The draws of random.choices that are followed.
DrawnIds == StaleIds \cup FreshIds

\* a step in which every id drawn for a new control is carried nowhere
FreshDraw == \A key \in Keys(ui_elements') \ Keys(ui_elements) : key \in FreshIds

\* A key event of a user who presses only `cells`, who plays the controls (keys off the
\* bottom row with the meta key up) only if `plays`, and who moves no control's
\* brightness further than `adjust`.
KeyEvent(cells, plays, adjust) ==
    \E c \in cells, s \in {0, 1} :
        /\ plays \/ meta_pressed \/ c[2] = GridHeight - 1
        /\ on_grid_key(c[1], c[2], s)
        /\ Len(ui_elements') <= MaxElements
        /\ \A key \in Keys(ui_elements') \ Keys(ui_elements) : key \in DrawnIds
        /\ \A i \in 1..Len(ui_elements') : Moved(ui_elements'[i]) <= adjust

LayoutCells == {MetaCell, CopyDeleteCell, <<0, 1>>, <<1, 0>>, <<1, 2>>}

\* Laying out controls: the meta key, the copy/delete cell and three cells of the grid.
Next ==
    \/ KeyEvent(LayoutCells, FALSE, 0) /\ FreshDraw
    \/ phase = "waiting" /\ on_grid_ready
    \/ update_loop

Spec == Init /\ [][Next]_vars

SmallCells == {MetaCell, CopyDeleteCell, <<0, 1>>, <<1, 0>>}

\* The device comes and goes while controls are laid out on two cells.
NextDevice ==
    \/ KeyEvent(SmallCells, FALSE, 0) /\ FreshDraw
    \/ on_grid_ready
    \/ on_grid_ready_interrupted
    \/ on_grid_disconnect
    \/ update_loop
    \/ signal_handler
    \/ main_finally

SpecDevice == Init /\ [][NextDevice]_vars

\* The clock runs while controls are laid out on two cells.
NextTiming ==
    \/ KeyEvent(SmallCells, FALSE, MaxAdjust) /\ FreshDraw
    \/ on_grid_ready
    \/ Tick

SpecTiming == Init /\ [][NextTiming]_vars

\* Controls are laid out on two cells and played.
NextTouch ==
    \/ KeyEvent(SmallCells, TRUE, MaxAdjust)
    \/ phase = "waiting" /\ on_grid_ready

SpecTouch == Init /\ [][NextTouch]_vars

\* A key event of a user playing the controls: a key of `cells` with the meta key up.
Play(cells) ==
    \E c \in cells, s \in {0, 1} :
        /\ ~meta_pressed
        /\ on_grid_key(c[1], c[2], s)

PlayCells == {<<1, 1>>}

\* Controls are laid out on three cells and the cell between them is played.
NextPlay ==
    \/ KeyEvent(LayoutCells, FALSE, 0) /\ FreshDraw
    \/ Play(PlayCells)
    \/ phase = "waiting" /\ on_grid_ready

SpecPlay == Init /\ [][NextPlay]_vars

\* two cells of a row: on a grid three wide the meta UI of a control at (1,1) is the
\* pair (0,1), (1,1), so both levels can be moved up and down
BrightCells == {MetaCell, CopyDeleteCell, <<0, 1>>, <<1, 1>>}

\* a step that leaves no control of more than one vertex
PointsOnly == \A i \in 1..Len(ui_elements') : ui_elements'[i].shape = "Point"

\* One single-cell control at a time is laid out on the row and its levels are moved
\* over their whole range.
NextBright ==
    \/ /\ KeyEvent(BrightCells, FALSE, FullAdjust)
       /\ Len(ui_elements') <= MaxBrightControls
       /\ PointsOnly
       /\ FreshDraw
    \/ phase = "waiting" /\ on_grid_ready

SpecBright == Init /\ [][NextBright]_vars

LineCells == {MetaCell, <<0, 1>>, <<1, 1>>, <<2, 1>>, <<1, 0>>}

\* Controls are laid out on the three cells of a row and one cell above it, and played.
NextLine ==
    \/ KeyEvent(LineCells, TRUE, 0) /\ FreshDraw
    \/ phase = "waiting" /\ on_grid_ready

SpecLine == Init /\ [][NextLine]_vars

(* ------------------------------- claims ------------------------------- *)
Cells == (0..(GridWidth - 1)) \X (0..(GridHeight - 1))
Live == 1..Len(ui_elements)

\* C1: no cell of the grid is contained in two different live controls.
C1_NoTwoControlsShareACell ==
    \A i, j \in Live : i # j =>
        \A c \in Cells : ~(contains_point(ui_elements[i], c[1], c[2])
                           /\ contains_point(ui_elements[j], c[1], c[2]))

\* C2: no live control contains a cell of the bottom row.
C2_BottomRowFree ==
    connected =>
        \A i \in Live : \A x \in 0..(width - 1) :
            ~contains_point(ui_elements[i], x, height - 1)

\* C3: the selection is None or the key of a live control.
C3_SelectionIsLive == selected_element = None \/ selected_element \in Keys(ui_elements)

\* a control was copied and then deleted, within one hold of the meta key
C3_Witness ==
    /\ meta_pressed
    /\ selected_element = None
    /\ paste_buffer # NoElement
    /\ paste_buffer.id \notin Keys(ui_elements)
    /\ meta_history = <<<<1, height - 1>>, <<1, height - 1>>>>

\* C4: ids of live controls are pairwise different and each is the key of its control.
C4_IdsUniqueAndKeyed ==
    /\ \A i \in Live : ui_elements[i].id = ui_elements[i].key
    /\ \A i, j \in Live : i # j => ui_elements[i].id # ui_elements[j].id

\* C5: every vertex of every live control lies on the grid.
C5_VerticesOnGrid ==
    \A i \in Live : \A k \in 1..Len(ui_elements[i].points) :
        /\ 0 <= ui_elements[i].points[k][1] /\ ui_elements[i].points[k][1] < width
        /\ 0 <= ui_elements[i].points[k][2] /\ ui_elements[i].points[k][2] < height

\* C9: an accepted paste adds the clipboard's shape moved so that its first vertex is
\* the pressed cell, every vertex by the same offset, and changes neither the
\* clipboard nor the controls already there.
C9_PasteTranslates ==
    [][(meta_pressed /\ meta_pressed' /\ Len(ui_elements') = Len(ui_elements) + 1) =>
        LET new == ui_elements'[Len(ui_elements')]
            at == meta_history'[Len(meta_history')]
            dx == at[1] - paste_buffer.points[1][1]
            dy == at[2] - paste_buffer.points[1][2]
        IN  /\ new.shape = paste_buffer.shape
            /\ Len(new.points) = Len(paste_buffer.points)
            /\ new.points[1] = at
            /\ \A k \in 1..Len(new.points) :
                  new.points[k] = <<paste_buffer.points[k][1] + dx, paste_buffer.points[k][2] + dy>>
            /\ paste_buffer' = paste_buffer
            /\ SubSeq(ui_elements', 1, Len(ui_elements)) = ui_elements]_vars

\* a copied rectangle was pasted elsewhere while the original is still there
C9_Witness ==
    /\ meta_pressed
    /\ Len(ui_elements) = 2
    /\ selected_element = ui_elements[2].key
    /\ ui_elements[2].shape = "Rectangle"
    /\ paste_buffer # NoElement
    /\ paste_buffer.points = ui_elements[1].points
    /\ ui_elements[2].points # ui_elements[1].points
    /\ ui_elements[2].points[1] = meta_history[Len(meta_history)]

\* C6: once the device is gone the render loop is stopped and the editor state is
\* empty.
C6_DisconnectStopsAndResets ==
    phase = "detached" =>
        /\ ~is_running
        /\ ui_elements = <<>> /\ current_points = <<>> /\ meta_history = <<>>
        /\ ~meta_pressed /\ selected_element = None

\* C7: every on_grid_ready, whether the device was attached before or not and whether
\* or not SIGINT arrives inside it, empties the control map, the point buffer and the
\* meta history, clears the meta flag, the selection and the double-press timer, and
\* leaves the clipboard as it was.
C7_ResetKeepsClipboard ==
    [][(on_grid_ready \/ on_grid_ready_interrupted) =>
        /\ ui_elements' = <<>> /\ current_points' = <<>> /\ meta_history' = <<>>
        /\ ~meta_pressed' /\ selected_element' = None
        /\ delete_press_time' = 0 /\ delete_press_count' = 0
        /\ paste_buffer' = paste_buffer]_vars

\* after a reset (the timer is 0 again) the clipboard of before was pasted: the copy/
\* delete cell, then an empty cell
C7_Witness ==
    /\ delete_press_time = 0
    /\ paste_buffer # NoElement
    /\ meta_pressed
    /\ Len(ui_elements) = 1
    /\ selected_element = ui_elements[1].key
    /\ meta_history = <<<<1, height - 1>>, ui_elements[1].points[1]>>
    /\ ui_elements[1].id = paste_buffer.id

\* C8: with the meta key held and a control selected, a key-down on the copy/delete
\* cell deletes the selected control iff the previous such key-down was less than
\* 0.5 s earlier, and otherwise copies it and leaves the control map alone.
C8_DeleteIffPressedRecently ==
    [][(/\ connected /\ meta_pressed /\ selected_element # None
        /\ on_grid_key(1, height - 1, 1)) =>
        IF copy_delete_key_time # 0 /\ now - copy_delete_key_time < DoublePressWindow
        THEN /\ selected_element' = None
             /\ ui_elements' = SelectSeq(ui_elements, LAMBDA e : e.key # selected_element)
        ELSE /\ paste_buffer' = deepcopy(ui_elements[IndexOf(ui_elements, selected_element)])
             /\ ui_elements' = ui_elements]_vars

\* C10: with the meta key up, a key-down on one cell and then a key-up on
\* another, neither in the bottom row, leave a Rectangle spanning the two cells when
\* that rectangle overlaps no control.
C10_NormalGestureCreates ==
    [][\A c \in Cells :
        (/\ connected /\ ~meta_pressed
         /\ normal_down # <<>> /\ c # normal_down /\ c[2] < height - 1
         /\ ~elements_overlap(Trigger(None, "Rectangle", <<normal_down, c>>), ui_elements)
         /\ on_grid_key(c[1], c[2], 0))
        => \E i \in 1..Len(ui_elements') :
              /\ ui_elements'[i].shape = "Rectangle"
              /\ ui_elements'[i].points = <<normal_down, c>>]_vars

\* the meta key is held, nothing is selected, no paste is pending, and c is a cell off
\* the bottom row that no control contains
EmptyCellPress(c) ==
    /\ connected /\ meta_pressed /\ selected_element = None
    /\ c[2] < height - 1
    /\ get_element_at_position(ui_elements, c[1], c[2]) = 0
    /\ ~(paste_buffer # NoElement /\ Len(meta_history) >= 1
         /\ meta_history[Len(meta_history)] = <<1, height - 1>>)

\* C11: such a key-down at once adds a single-point control at the cell and
\* selects it.
C11_PressCreatesAndSelects ==
    [][\A c \in Cells :
        (EmptyCellPress(c) /\ on_grid_key(c[1], c[2], 1))
        => \E i \in 1..Len(ui_elements') :
              /\ ui_elements'[i].shape = "Point"
              /\ ui_elements'[i].points = <<c>>
              /\ selected_element' = ui_elements'[i].key]_vars

\* C12: with the meta key up, a key-down on a cell off the bottom row flips the state
\* of every control containing the cell, a key-up changes no state, every state is 0 or
\* 1, one key event changes the state of at most one control, and a key event in the
\* bottom row changes no control.
C12_TriggerSemantics ==
    [][/\ \A i \in Live : ui_elements[i].state \in {0, 1}
       /\ \A c \in Cells, s \in {0, 1} :
            (connected /\ ~meta_pressed /\ c # <<0, height - 1>> /\ on_grid_key(c[1], c[2], s))
            => /\ Len(ui_elements') = Len(ui_elements)
               /\ (s = 1 /\ c[2] < height - 1) =>
                     \A i \in Live : contains_point(ui_elements[i], c[1], c[2]) =>
                         ui_elements'[i].state = 1 - ui_elements[i].state
               /\ s = 0 => \A i \in Live : ui_elements'[i].state = ui_elements[i].state
               /\ Cardinality({i \in Live : ui_elements'[i].state # ui_elements[i].state}) <= 1
               /\ c[2] = height - 1 => ui_elements' = ui_elements]_vars

InRange(el) ==
    /\ 0 <= el.base_brightness /\ el.base_brightness <= BaseBrightnessMax
    /\ PeakBrightnessMin <= el.peak_brightness /\ el.peak_brightness <= PeakBrightnessMax

\* C13: every live control and the clipboard control have 0 <= base_brightness <= 13
\* and 2 <= peak_brightness <= 15, and adjust_brightness(0) changes neither level.
C13_BrightnessInRange ==
    /\ \A i \in Live :
          /\ InRange(ui_elements[i])
          /\ adjust_brightness(ui_elements[i], 0) = ui_elements[i]
    /\ paste_buffer # NoElement =>
          /\ InRange(paste_buffer)
          /\ adjust_brightness(paste_buffer, 0) = paste_buffer

\* a control was raised until both levels were clamped, and copied there
C13_Witness ==
    /\ Len(ui_elements) = 1
    /\ ui_elements[1].base_brightness = BaseBrightnessMax
    /\ ui_elements[1].peak_brightness = PeakBrightnessMax
    /\ paste_buffer # NoElement
    /\ paste_buffer.base_brightness = BaseBrightnessMax

\* C14: with the meta key held and a control selected, a key-down on a cell of another
\* control, off the meta UI of the selected one, selects that other control; and no key
\* event leaves its handler through an exception.
C14_SelectingAnotherControl ==
    [][/\ last_error' = None
       /\ \A c \in Cells :
            LET i == get_element_at_position(ui_elements, c[1], c[2])
                a == IndexOf(ui_elements, selected_element)
                pos == get_meta_ui_position(ui_elements[a], width, height)
            IN  (/\ connected /\ meta_pressed /\ selected_element # None
                 /\ c[2] < height - 1 /\ i # 0 /\ i # a
                 /\ c # pos /\ c # <<pos[1] + 1, pos[2]>>
                 /\ on_grid_key(c[1], c[2], 1))
                => selected_element' = ui_elements[i].key]_vars

\* a key-down on c, with the meta key held, reaches paste_element (line 315)
PasteTriggered(c) ==
    /\ connected /\ meta_pressed
    /\ c[2] < height - 1
    /\ get_element_at_position(ui_elements, c[1], c[2]) = 0
    /\ paste_buffer # NoElement
    /\ Len(meta_history) >= 1 /\ meta_history[Len(meta_history)] = <<1, height - 1>>
    /\ selected_element # None =>
          LET pos == get_meta_ui_position(ui_elements[IndexOf(ui_elements, selected_element)],
                                          width, height)
          IN  c # pos /\ c # <<pos[1] + 1, pos[2]>>

\* paste_element refuses the clipboard at c (lines 420-423)
PasteRejected(c) ==
    paste_element(ui_elements, selected_element, paste_buffer, c[1], c[2], None, height).ui_elements
        = ui_elements

\* C15: a press that triggers a paste which is refused leaves the clipboard, the control
\* map, the selection and the point buffer as they were.
C15_RejectedPasteChangesNothing ==
    [][\A c \in Cells :
        (PasteTriggered(c) /\ PasteRejected(c) /\ on_grid_key(c[1], c[2], 1))
        => /\ paste_buffer' = paste_buffer
           /\ ui_elements' = ui_elements
           /\ selected_element' = selected_element
           /\ current_points' = current_points]_vars

\* C16: whenever the meta key is not held, nothing is selected and the point buffer is
\* empty.
C16_IdleOutsideMetaMode ==
    ~meta_pressed => (selected_element = None /\ current_points = <<>>)

\* the meta key was released with a control selected and copied, the buffered cell
\* being the control's own, which create_ui_element refuses
C16_Witness ==
    /\ connected /\ ~meta_pressed
    /\ Len(ui_elements) = 1
    /\ paste_buffer # NoElement
    /\ paste_buffer.points = ui_elements[1].points
    /\ meta_history = <<ui_elements[1].points[1], <<1, height - 1>>>>

\* fewer than three vertices, or three on one line (two equal ones included)
Degenerate(points) ==
    Len(points) < 3 \/ sign(points[1], points[2], points[3]) = 0

\* C17: a live triangle whose vertices are collinear contains no cell of the grid.
C17_DegenerateTriangleIsEmpty ==
    \A i \in Live :
        (ui_elements[i].shape = "Triangle" /\ Degenerate(ui_elements[i].points))
        => \A c \in Cells : ~contains_point(ui_elements[i], c[1], c[2])

\* C18: for every live control the increment cell (mx, my) and the decrement cell
\* (mx + 1, my) of its meta UI are on the grid and above the bottom row.
C18_MetaUIOnGrid ==
    connected =>
        \A i \in Live :
            LET pos == get_meta_ui_position(ui_elements[i], width, height)
            IN  /\ 0 <= pos[1] /\ pos[1] + 1 <= width - 1
                /\ 0 <= pos[2] /\ pos[2] < height - 1

\* a pasted control reaching below the grid is selected, and the place right of it is
\* off the grid
C18_Witness ==
    /\ meta_pressed /\ selected_element # None
    /\ LET el == ui_elements[IndexOf(ui_elements, selected_element)]
       IN  /\ el.key # el.id
           /\ \E k \in 1..Len(el.points) : el.points[k][2] >= height
           /\ \E k \in 1..Len(el.points) : el.points[k][1] + 1 >= width - 1

\* C19: the meta UI of the selected control is one cell right of its rightmost vertex
\* when both cells fit there; otherwise, when two columns are free left of the control,
\* both cells are left of its leftmost vertex; and neither cell is contained in the
\* control.
C19_MetaUIOffTheControl ==
    (connected /\ meta_pressed /\ selected_element # None) =>
        LET el == ui_elements[IndexOf(ui_elements, selected_element)]
            xs == {el.points[k][1] : k \in 1..Len(el.points)}
            ys == {el.points[k][2] : k \in 1..Len(el.points)}
            pos == get_meta_ui_position(el, width, height)
        IN  /\ MaxOf(xs) + 2 <= width - 1 => pos = <<MaxOf(xs) + 1, MinOf(ys)>>
            /\ (MaxOf(xs) + 2 > width - 1 /\ MinOf(xs) >= 2) => pos[1] + 1 < MinOf(xs)
            /\ ~contains_point(el, pos[1], pos[2])
            /\ ~contains_point(el, pos[1] + 1, pos[2])

\* the one cell pressed off the bottom row in this hold of the meta key selected the
\* control that contains it, and the previous key-down was on the copy/delete cell
SelectedThenPressedOnce ==
    /\ connected /\ meta_pressed /\ selected_element # None
    /\ Len(current_points) = 1
    /\ contains_point(ui_elements[IndexOf(ui_elements, selected_element)],
                      current_points[1][1], current_points[1][2])
    /\ Len(meta_history) >= 1 /\ meta_history[Len(meta_history)] = <<1, height - 1>>

\* C20: when, after such a selection and a first press, a second key-down on the
\* copy/delete cell deletes the control, releasing the meta key next leaves the control
\* map as the delete left it: nothing is created at the cell that selected the control.
C20_DeleteIsEffective ==
    [][(/\ SelectedThenPressedOnce
        /\ on_grid_key(1, height - 1, 1)
        /\ selected_element' = None
        /\ ui_elements' = SelectSeq(ui_elements, LAMBDA e : e.key # selected_element))
       => \A new_id \in generate_unique_id(Keys(ui_elements')) :
             create_ui_element(ui_elements', current_points', new_id, height).ui_elements
                 = ui_elements']_vars

\* the level shown in state 1 is above the level shown in state 0, by at least 2
LevelsApart(el) ==
    /\ el.peak_brightness - el.base_brightness >= 2
    /\ get_brightness([el EXCEPT !.state = 1]) > get_brightness([el EXCEPT !.state = 0])

\* C21: for every live control and for the clipboard control, peak_brightness is at
\* least 2 above base_brightness, so the control is brighter in state 1 than in state 0.
C21_LevelsNeverCollapse ==
    /\ \A i \in Live : LevelsApart(ui_elements[i])
    /\ paste_buffer # NoElement => LevelsApart(paste_buffer)

\* a control was lowered until both levels were clamped, 2 apart, and copied there
C21_Witness ==
    /\ Len(ui_elements) = 1
    /\ ui_elements[1].base_brightness = 0
    /\ ui_elements[1].peak_brightness = PeakBrightnessMin
    /\ paste_buffer # NoElement
    /\ paste_buffer.peak_brightness = PeakBrightnessMin

====
